---- MODULE Spec2Model ----
(***************************************************************************)
(* DeviceKeyHelperRK: validated backup of the device key region, the       *)
(* check() decision algorithm and the cloud-status event handler that      *)
(* triggers it (src/src/DeviceKeyHelperRK.cpp).                            *)
(***************************************************************************)
EXTENDS Integers, Sequences, FiniteSets, TLC

\* ------------------------------------------------------------------ bounds
\* Number of bytes of the key region (1600-odd on a device; small here).
DEVICE_KEYS_HELPER_SIZE == 2
\* failureCount is an int that only grows between resets; events stop being
\* delivered once it has reached this value.
MaxFailures == 4
\* System.on() may be called at most this many times between two boots.
MaxRegistrations == 1
\* The same, where each raised event is dispatched to every registration.
MaxHandlers == 2

\* --------------------------------------------------------------- constants
\* Sentinel of a record header. The header file sets it; any value other
\* than the 0 of a value-initialised record behaves alike.
DATA_HEADER_MAGIC == 1973011461
\* uint16_t arithmetic of the checksum.
Uint16 == 65536
\* sizeof(Data::b) in getSystemDiagValue.
DiagDataSize == 10
\* failureCount >= 3 starts recovery.
FailureThreshold == 3
\* Cloud connection error codes meaning "keys error" (TCP and UDP devices).
KeysErrorTcp == 26
KeysErrorUdp == 10

CHECKMODE_AUTOMATIC == "CHECKMODE_AUTOMATIC"
CHECKMODE_AUTOMATIC_NO_RESTART == "CHECKMODE_AUTOMATIC_NO_RESTART"
CHECKMODE_CHECK_ONLY == "CHECKMODE_CHECK_ONLY"
CHECKMODE_SAVE_CURRENT == "CHECKMODE_SAVE_CURRENT"
CheckMode == {CHECKMODE_AUTOMATIC, CHECKMODE_AUTOMATIC_NO_RESTART,
              CHECKMODE_CHECK_ONLY, CHECKMODE_SAVE_CURRENT}

cloud_status_connecting == "cloud_status_connecting"
cloud_status_connected == "cloud_status_connected"
cloud_status_disconnecting == "cloud_status_disconnecting"
cloud_status_disconnected == "cloud_status_disconnected"
CloudStatus == {cloud_status_connecting, cloud_status_connected,
                cloud_status_disconnecting, cloud_status_disconnected}

\* ------------------------------------------------------------------- state
VARIABLES
    live,           \* the device key region in the DCT (uint8_t[SIZE])
    backup,         \* what the application's load/save callbacks store
    connected,      \* DeviceKeyHelper::connected
    failureCount,   \* DeviceKeyHelper::failureCount
    registrations,  \* handlers registered with System.on(cloud_status, ..)
    diagSupport,    \* SYSTEM_VERSION >= 0x00080000 (fixed by the build)
    halted,         \* a System.reset() took effect; the device is rebooting
    strikes,        \* history: Disconnected events handled while not
                    \* connected since the last Connected event or boot
    trace,          \* calls made by the last check() / eventHandler() run
    prev,           \* history: the trace of the run before that one, kept
                    \* by SpecHistory, SpecDispatch and SpecCodec only
    queue           \* the raised event, once per handler call still due
                    \* for it; used by SpecDispatch only

vars == <<live, backup, connected, failureCount, registrations, diagSupport,
          halted, strikes, trace, prev, queue>>

\* The key bytes the model draws from: the least and the greatest uint8_t.
Byte == {0, 255}
Keys == [1..DEVICE_KEYS_HELPER_SIZE -> Byte]

\* The backup store holds no record (<<>>) or one record (<<r>>).
NoBackup == <<>>

\* ------------------------------------------------------- backup record codec
RECURSIVE SumTo(_, _)
SumTo(keys, n) ==
    IF n = 0 THEN 0 ELSE (SumTo(keys, n - 1) + keys[n]) % Uint16

\* calculateChecksum with the loop stopping one byte early.
calculateChecksumSkipsLast(savedData) ==
    SumTo(savedData.keys, DEVICE_KEYS_HELPER_SIZE - 1)

\* uint16_t sum = 0; for (ii < SIZE) sum += keys[ii];
calculateChecksum(savedData) ==
    SumTo(savedData.keys, DEVICE_KEYS_HELPER_SIZE)

\* validateData without the magic and size test of line 129.
validateDataSumOnly(savedData) ==
    savedData.sum = calculateChecksum(savedData)

\* Lines 127-139.
validateData(savedData) ==
    /\ ~(savedData.magic # DATA_HEADER_MAGIC
         \/ savedData.size # DEVICE_KEYS_HELPER_SIZE)
    /\ ~(savedData.sum # calculateChecksum(savedData))

\* new DeviceKeyHelperSavedData(): a value-initialised record.
NewSavedData ==
    [magic |-> 0, size |-> 0, sum |-> 0,
     keys |-> [i \in 1..DEVICE_KEYS_HELPER_SIZE |-> 0]]

\* FreshRecord with the checksum taken before the memcpy of line 100.
FreshRecordStaleSum(saved, onDevice) ==
    [magic |-> DATA_HEADER_MAGIC, size |-> DEVICE_KEYS_HELPER_SIZE,
     sum |-> calculateChecksum(saved), keys |-> onDevice]

\* The record lines 100-104 build in the buffer before save().
FreshRecord(saved, onDevice) ==
    [magic |-> DATA_HEADER_MAGIC, size |-> DEVICE_KEYS_HELPER_SIZE,
     sum |-> calculateChecksum([saved EXCEPT !.keys = onDevice]),
     keys |-> onDevice]

\* ------------------------------------------------------------ calls made
\* One entry of trace: the call, its mode or param, its boolean outcome, its
\* integer argument or result, and the record or key buffer it carries.
Call(op, arg, ok, n, rec) ==
    [op |-> op, arg |-> arg, ok |-> ok, n |-> n, rec |-> rec]

KeyBuffer(keys) == [NewSavedData EXCEPT !.keys = keys]

\* What the environment answers during one check():
\*   loadOk  the load callback finds its record and returns true
\*   res     the status dct_write_app_data returns (0 is success)
\*   halts   System.reset() takes effect (control does not return)
\*   saveOk  the save callback stores the record and returns true
\*   halts2  the event handler's own System.reset() takes effect
\*   diagSize, diagValue  see getSystemDiagValue
\* check(checkMode) called by the application asks for the first four; the
\* modes that never revert ask for no res, those that never reset for no
\* halts.
CheckInputs(checkMode) ==
    [loadOk : BOOLEAN,
     res : IF checkMode \in {CHECKMODE_AUTOMATIC,
                             CHECKMODE_AUTOMATIC_NO_RESTART}
           THEN {0, -1} ELSE {0},
     halts : IF checkMode = CHECKMODE_AUTOMATIC THEN BOOLEAN ELSE {FALSE},
     saveOk : BOOLEAN,
     halts2 : {FALSE}, diagSize : {0}, diagValue : {0}]

\* The calls named op among calls.
Made(calls, op) == {i \in DOMAIN calls : calls[i].op = op}

\* An answer is drawn only for a call that is made: the answers in to calls
\* absent from calls are the first of their kind.
Asked(calls, in) ==
    /\ (Made(calls, "load") = {} => in.loadOk)
    /\ (Made(calls, "dct_write_app_data") = {} => in.res = 0)
    /\ (Made(calls, "System.reset") = {} => ~in.halts /\ ~in.halts2)
    /\ (Cardinality(Made(calls, "System.reset")) = 1
          => IF \E r \in Made(calls, "System.reset") :
                    \A j \in Made(calls, "return") : r < j
             THEN ~in.halts2    \* the reset is check()'s own
             ELSE ~in.halts)    \* the reset is the event handler's
    /\ (Made(calls, "save") = {} => in.saveOk)
    /\ (Made(calls, "getSystemDiagValue") = {}
          => in.diagSize = 0 /\ in.diagValue = 0)
    /\ (in.diagSize # DiagDataSize => in.diagValue = 0)

\* load(saved): the callback fills the buffer and returns true, or returns
\* false and leaves the value-initialised buffer alone.
Load(bk, in) ==
    IF bk # NoBackup /\ in.loadOk
    THEN [ok |-> TRUE, saved |-> bk[1]]
    ELSE [ok |-> FALSE, saved |-> NewSavedData]

\* Reverts with no mode writing the key region.
RevertsNever(checkMode) == FALSE

\* Line 54: a changed key region is reverted unless the mode is check-only.
Reverts(checkMode) == checkMode # CHECKMODE_CHECK_ONLY

\* Restarts with the test of the mode dropped, either way.
RestartsNever(checkMode) == FALSE
RestartsAlways(checkMode) == TRUE

\* Line 59: System.reset() follows the revert unless the mode forbids it.
Restarts(checkMode) == checkMode # CHECKMODE_AUTOMATIC_NO_RESTART

\* AlreadySaved never finding the record in place.
AlreadySavedNever(saved, onDevice) == FALSE

\* Lines 87-90: the buffer already holds exactly the record to be saved.
AlreadySaved(saved, onDevice) ==
    /\ saved.magic = DATA_HEADER_MAGIC
    /\ saved.size = DEVICE_KEYS_HELPER_SIZE
    /\ saved.sum = calculateChecksum(saved)
    /\ saved.keys = onDevice

\* WantsSave without the forced save of SAVE_CURRENT (lines 47-50).
WantsSaveUnlessValid(checkMode, loaded, valid) == ~(loaded /\ valid)

\* WantsSave when every mode saves whatever was loaded.
WantsSaveAlways(checkMode, loaded, valid) == TRUE

\* Lines 43-84: saveKeys as the load / validate / mode cascade leaves it.
WantsSave(checkMode, loaded, valid) ==
    IF loaded
    THEN IF valid THEN checkMode = CHECKMODE_SAVE_CURRENT ELSE TRUE
    ELSE TRUE

\* Changed without the test for SAVE_CURRENT of line 47.
ChangedInAnyMode(checkMode, loaded, valid, saved, onDevice) ==
    /\ loaded
    /\ valid
    /\ onDevice # saved.keys

\* Lines 45-67: the loaded record is valid, the mode compares, and memcmp
\* finds the key region different from the record.
Changed(checkMode, loaded, valid, saved, onDevice) ==
    /\ loaded
    /\ valid
    /\ checkMode # CHECKMODE_SAVE_CURRENT
    /\ onDevice # saved.keys

\* bool DeviceKeyHelper::check(CheckMode checkMode), run on key region lv and
\* backup store bk: the value returned, the key region and the backup store
\* it leaves, the calls it makes, and whether a System.reset() cut it short.
check(checkMode, lv, bk, in) ==
    LET onDevice == lv
        l == Load(bk, in)
        saved == l.saved
        valid == l.ok /\ validateData(saved)
        changed == Changed(checkMode, l.ok, valid, saved, onDevice)
        revert == changed /\ Reverts(checkMode)
        reset == revert /\ Restarts(checkMode)
        stop == reset /\ in.halts
        result == ~changed
        saveKeys == /\ WantsSave(checkMode, l.ok, valid)
                    /\ ~AlreadySaved(saved, onDevice)
        record == FreshRecord(saved, onDevice)
        calls ==
            <<Call("check", checkMode, TRUE, 0, NewSavedData),
              Call("dct_read_app_data_copy", "", TRUE, 0, KeyBuffer(onDevice)),
              Call("load", "", l.ok, 0, saved)>>
            \o (IF revert
                THEN <<Call("dct_write_app_data", "", in.res = 0, in.res,
                            KeyBuffer(saved.keys))>>
                ELSE <<>>)
            \o (IF reset
                THEN <<Call("System.reset", "", in.halts, 0, NewSavedData)>>
                ELSE <<>>)
            \o (IF saveKeys /\ ~stop
                THEN <<Call("save", "", in.saveOk, 0, record)>>
                ELSE <<>>)
            \o (IF ~stop
                THEN <<Call("return", checkMode, result, 0, NewSavedData)>>
                ELSE <<>>)
    IN  [result |-> result,
         live |-> IF revert THEN saved.keys ELSE lv,
         backup |-> IF saveKeys /\ ~stop /\ in.saveOk THEN <<record>> ELSE bk,
         trace |-> calls,
         halted |-> stop]

\* ------------------------------------------------------ connectivity monitor
\* What the environment answers during one eventHandler() run: the answers
\* to its check(), plus
\*   halts2     the handler's own System.reset() takes effect
\*   diagSize   bytes system_format_diag_data hands to the appender
\*   diagValue  the connection error code among those bytes
DiagValues == {0, KeysErrorUdp, 11, KeysErrorTcp}
DiagSizes == {0, DiagDataSize}
HandlerInputs(param, diag) ==
    IF param = cloud_status_connected
    THEN CheckInputs(CHECKMODE_SAVE_CURRENT)
    ELSE IF param = cloud_status_disconnected
    THEN [loadOk : BOOLEAN, res : {0, -1}, halts : BOOLEAN, saveOk : BOOLEAN,
          halts2 : BOOLEAN,
          diagSize : IF diag THEN DiagSizes ELSE {0},
          diagValue : IF diag THEN DiagValues ELSE {0}]
    ELSE [loadOk : {TRUE}, res : {0}, halts : {FALSE}, saveOk : {TRUE},
          halts2 : {FALSE}, diagSize : {0}, diagValue : {0}]

\* getSystemDiagValue(DIAG_ID_CLOUD_CONNECTION_ERROR_CODE, value): the
\* appender copies what fits in Data::b; value is read from bytes 6..9 and
\* the call succeeds when exactly sizeof(Data::b) bytes arrived. Without
\* diagnostic support it yields value 0 and false.
getSystemDiagValue(diag, in) ==
    IF diag
    THEN [ok |-> in.diagSize = DiagDataSize,
          value |-> IF in.diagSize = DiagDataSize THEN in.diagValue ELSE 0]
    ELSE [ok |-> FALSE, value |-> 0]

\* IsKeysError knowing the TCP code alone.
IsKeysErrorTcpOnly(value) == value = KeysErrorTcp

\* Line 165: the error codes taken to mean a keys error.
IsKeysError(value) == value = KeysErrorTcp \/ value = KeysErrorUdp

\* TooManyFailures one attempt early.
TooManyFailuresEarly(count) == count >= FailureThreshold - 1

\* Line 181: enough failed connection attempts to suspect the keys.
TooManyFailures(count) == count >= FailureThreshold

\* Recover without the restart request that follows check().
RecoverWithoutRestart(lv, bk, in) ==
    LET c == check(CHECKMODE_AUTOMATIC, lv, bk, in)
    IN  [live |-> c.live,
         backup |-> c.backup,
         trace |-> <<Call("Particle.disconnect", "", TRUE, 0, NewSavedData)>>
                   \o c.trace,
         halted |-> c.halted]

\* Lines 168-174 and 184-190: Particle.disconnect(), check(AUTOMATIC) and,
\* when control comes back, System.reset().
Recover(lv, bk, in) ==
    LET c == check(CHECKMODE_AUTOMATIC, lv, bk, in)
    IN  [live |-> c.live,
         backup |-> c.backup,
         trace |-> <<Call("Particle.disconnect", "", TRUE, 0, NewSavedData)>>
                   \o c.trace
                   \o (IF c.halted
                       THEN <<>>
                       ELSE <<Call("System.reset", "", in.halts2, 0,
                                   NewSavedData)>>),
         halted |-> c.halted \/ in.halts2]

\* A Disconnected event clearing the connected flag.
AfterDisconnectedCleared(conn) == FALSE

\* Lines 156-195 hold no assignment to connected: a Disconnected event
\* leaves the flag as it found it.
AfterDisconnected(conn) == conn

\* The failure counter standing in whenever the query gives no value.
CountsFailuresOnAbsent(diag, d) == ~diag \/ ~d.ok

\* Lines 159 and 177: the failure counter is compiled in (#else) exactly
\* when the diagnostic query is not (#if SYSTEM_VERSION >= 0x00080000).
CountsFailures(diag, d) == ~diag

\* Lines 156-195: a Disconnected event.
Disconnected(lv, bk, conn, count, diag, in) ==
    LET d == getSystemDiagValue(diag, in)
        counts == CountsFailures(diag, d)
        newCount == IF ~conn /\ counts THEN count + 1 ELSE count
        recover == /\ ~conn
                   /\ IF counts
                      THEN TooManyFailures(newCount)
                      ELSE d.ok /\ IsKeysError(d.value)
        r == Recover(lv, bk, in)
        asked == IF ~conn /\ diag
                 THEN <<Call("getSystemDiagValue", "", d.ok, d.value,
                             NewSavedData)>>
                 ELSE <<>>
    IN  [live |-> IF recover THEN r.live ELSE lv,
         backup |-> IF recover THEN r.backup ELSE bk,
         connected |-> AfterDisconnected(conn),
         failureCount |-> newCount,
         trace |-> asked \o (IF recover THEN r.trace ELSE <<>>),
         halted |-> recover /\ r.halted]

\* Connected without the call of check().
ConnectedNoCheck(lv, bk, in) ==
    [live |-> lv, backup |-> bk, connected |-> TRUE, failureCount |-> 0,
     trace |-> <<>>, halted |-> FALSE]

\* Lines 148-154: a Connected event.
Connected(lv, bk, in) ==
    LET c == check(CHECKMODE_SAVE_CURRENT, lv, bk, in)
    IN  [live |-> c.live,
         backup |-> c.backup,
         connected |-> TRUE,
         failureCount |-> 0,
         trace |-> c.trace,
         halted |-> c.halted]

\* Connecting taken for the start of a fresh series of attempts.
ConnectingClearsCount(lv, bk, count) ==
    [live |-> lv, backup |-> bk, connected |-> FALSE, failureCount |-> 0,
     trace |-> <<>>, halted |-> FALSE]

\* Lines 143-146: a Connecting event.
Connecting(lv, bk, count) ==
    [live |-> lv, backup |-> bk, connected |-> FALSE,
     failureCount |-> count, trace |-> <<>>, halted |-> FALSE]

\* void DeviceKeyHelper::eventHandler(cloud_status, param).
eventHandler(param, lv, bk, conn, count, diag, in) ==
    LET entry == <<Call("eventHandler", param, conn, count, NewSavedData)>>
        h == IF param = cloud_status_connecting
             THEN Connecting(lv, bk, count)
             ELSE IF param = cloud_status_connected
             THEN Connected(lv, bk, in)
             ELSE IF param = cloud_status_disconnected
             THEN Disconnected(lv, bk, conn, count, diag, in)
             ELSE [live |-> lv, backup |-> bk, connected |-> conn,
                   failureCount |-> count, trace |-> <<>>, halted |-> FALSE]
    IN  [h EXCEPT !.trace = entry \o h.trace]

\* --------------------------------------------------------------- behaviour
ValidRecord(keys) ==
    [magic |-> DATA_HEADER_MAGIC, size |-> DEVICE_KEYS_HELPER_SIZE,
     sum |-> calculateChecksum(KeyBuffer(keys)), keys |-> keys]

\* Records a backup store can hold before the first save: any valid one,
\* one with a wrong magic, a wrong size or a wrong checksum, or zeroes.
Damaged ==
    LET r == ValidRecord([i \in 1..DEVICE_KEYS_HELPER_SIZE |-> 255])
    IN  {[r EXCEPT !.magic = 0],
         [r EXCEPT !.size = DEVICE_KEYS_HELPER_SIZE + 1],
         [r EXCEPT !.sum = (@ + 1) % Uint16]}
StoredRecords == {ValidRecord(k) : k \in Keys} \cup Damaged \cup {NewSavedData}

\* After the constructor (lines 15-18), on any key region and backup store.
Init ==
    /\ live \in Keys
    /\ backup \in {NoBackup} \cup {<<r>> : r \in StoredRecords}
    /\ diagSupport \in BOOLEAN
    /\ connected = FALSE
    /\ failureCount = 0
    /\ registrations = 0
    /\ halted = FALSE
    /\ strikes = 0
    /\ trace = <<>>
    /\ prev = <<>>
    /\ queue = <<>>

\* The application calls check(checkMode) itself.
CallCheck(checkMode) ==
    /\ ~halted
    /\ \E in \in CheckInputs(checkMode) :
        \E c \in {check(checkMode, live, backup, in)} :
              /\ Asked(c.trace, in)
              /\ live' = c.live
              /\ backup' = c.backup
              /\ halted' = c.halted
              /\ trace' = c.trace
    /\ UNCHANGED <<connected, failureCount, registrations, diagSupport,
                   strikes>>

\* startMonitor(): System.on(cloud_status, eventHandlerStatic).
startMonitor ==
    /\ ~halted
    /\ registrations' = registrations + 1
    /\ UNCHANGED <<live, backup, connected, failureCount, diagSupport,
                   halted, strikes, trace>>

\* The system raises cloud_status with param and a registered handler,
\* eventHandlerStatic, runs getInstance()->eventHandler(event, param).
eventHandlerStatic(param) ==
    /\ ~halted
    /\ registrations > 0
    /\ failureCount < MaxFailures
    /\ strikes < MaxFailures
    /\ \E in \in HandlerInputs(param, diagSupport) :
        \E h \in {eventHandler(param, live, backup, connected, failureCount,
                               diagSupport, in)} :
              /\ Asked(h.trace, in)
              /\ live' = h.live
              /\ backup' = h.backup
              /\ connected' = h.connected
              /\ failureCount' = h.failureCount
              /\ halted' = h.halted
              /\ trace' = h.trace
    /\ strikes' = IF param = cloud_status_connected
                  THEN 0
                  ELSE IF param = cloud_status_disconnected /\ ~connected
                  THEN strikes + 1
                  ELSE strikes
    /\ UNCHANGED <<registrations, diagSupport>>

\* The reset completes: the device boots and constructs the helper again.
Boot ==
    /\ halted
    /\ halted' = FALSE
    /\ connected' = FALSE
    /\ failureCount' = 0
    /\ registrations' = 0
    /\ strikes' = 0
    /\ trace' = <<>>
    /\ UNCHANGED <<live, backup, diagSupport>>

Next ==
    \/ /\ \E checkMode \in CheckMode : CallCheck(checkMode)
       /\ UNCHANGED <<prev, queue>>
    \/ /\ registrations < MaxRegistrations
       /\ startMonitor
       /\ UNCHANGED <<prev, queue>>
    \/ /\ \E param \in CloudStatus : eventHandlerStatic(param)
       /\ UNCHANGED <<prev, queue>>
    \/ /\ Boot
       /\ UNCHANGED <<prev, queue>>

Spec == Init /\ [][Next]_vars

\* The application calling check() again and again, each run remembering
\* the calls of the run before it.
NextHistory ==
    \/ /\ \E checkMode \in CheckMode : CallCheck(checkMode)
       /\ prev' = trace
       /\ UNCHANGED queue
    \/ /\ Boot
       /\ prev' = <<>>
       /\ UNCHANGED queue

SpecHistory == Init /\ [][NextHistory]_vars

\* The system raises cloud_status with param: every handler registered
\* with System.on() is due one call for it, in turn.
Raise(param) ==
    /\ ~halted
    /\ queue = <<>>
    /\ registrations > 0
    /\ queue' = [i \in 1..registrations |-> param]
    /\ trace' = <<>>
    /\ prev' = <<>>
    /\ UNCHANGED <<live, backup, connected, failureCount, registrations,
                   diagSupport, halted, strikes>>

\* The next handler call due for the raised event.
RunQueued ==
    /\ queue # <<>>
    /\ eventHandlerStatic(Head(queue))
    /\ queue' = Tail(queue)
    /\ prev' = trace

\* startMonitor() called any number of times, and each raised event
\* dispatched to every registration; prev holds the handler run before the
\* last one for the same event.
NextDispatch ==
    \/ /\ registrations < MaxHandlers
       /\ startMonitor
       /\ UNCHANGED <<prev, queue>>
    \/ \E param \in CloudStatus : Raise(param)
    \/ RunQueued
    \/ /\ Boot
       /\ prev' = <<>>
       /\ queue' = <<>>

SpecDispatch == Init /\ [][NextDispatch]_vars

\* validateData() on its own: a valid record, one byte of its payload
\* changed, is given to it. The payloads of the valid records draw on
\* bytes with every single-bit neighbour in reach; the changed byte takes
\* any uint8_t value.
CodecByte == {0, 1, 127, 128, 255}
AnyByte == 0..255

InitCodec ==
    /\ live = [i \in 1..DEVICE_KEYS_HELPER_SIZE |-> 0]
    /\ backup \in {<<ValidRecord(k)>> :
                      k \in [1..DEVICE_KEYS_HELPER_SIZE -> CodecByte]}
    /\ diagSupport = FALSE
    /\ connected = FALSE
    /\ failureCount = 0
    /\ registrations = 0
    /\ halted = FALSE
    /\ strikes = 0
    /\ trace = <<>>
    /\ prev = <<>>
    /\ queue = <<>>

\* Byte i of the stored record's payload becomes b; validateData() is
\* applied to the record before (kept in prev) and after (kept in trace).
CorruptAndValidate(i, b) ==
    /\ trace = <<>>
    /\ b # backup[1].keys[i]
    /\ \E changed \in {[backup[1] EXCEPT !.keys[i] = b]} :
          /\ backup' = <<changed>>
          /\ prev' = <<Call("validateData", "", validateData(backup[1]), 0,
                            backup[1])>>
          /\ trace' = <<Call("validateData", "", validateData(changed), i,
                             changed)>>
    /\ UNCHANGED <<live, connected, failureCount, registrations, diagSupport,
                   halted, strikes, queue>>

NextCodec ==
    \E i \in 1..DEVICE_KEYS_HELPER_SIZE : \E b \in AnyByte :
        CorruptAndValidate(i, b)

SpecCodec == InitCodec /\ [][NextCodec]_vars

\* -------------------------------------------------------------- properties
\* The record format: a valid record carries the sentinel, the size of the
\* key region and the sum of its payload bytes modulo 2^16.
RECURSIVE SumOver(_, _)
SumOver(keys, S) ==
    IF S = {}
    THEN 0
    ELSE LET i == CHOOSE j \in S : TRUE
         IN  keys[i] + SumOver(keys, S \ {i})

WellFormed(r) ==
    /\ r.magic = DATA_HEADER_MAGIC
    /\ r.size = DEVICE_KEYS_HELPER_SIZE
    /\ r.sum = SumOver(r.keys, DOMAIN r.keys) % Uint16

\* Reading a run's calls. A run holds at most one check(): its entry, the
\* read of the key region, the load, then what check() does, then its
\* return unless a reset cut it short.
Runs(t, checkMode) ==
    \E i \in DOMAIN t : t[i].op = "check" /\ t[i].arg = checkMode
RunsCheck(t) == Made(t, "check") # {}
CheckAt(t) == CHOOSE i \in DOMAIN t : t[i].op = "check"
ReadKeys(t) == t[CheckAt(t) + 1].rec.keys
LoadCall(t) == t[CheckAt(t) + 2]
Returns(t) == Made(t, "return") # {}
Returned(t) == t[CHOOSE i \in DOMAIN t : t[i].op = "return"].ok
\* The calls check() itself makes, the caller's left out.
Within(t, op) ==
    {i \in Made(t, op) :
        /\ i > CheckAt(t)
        /\ \A j \in Made(t, "return") : i < j}
ValidLoaded(t) == LoadCall(t).ok /\ WellFormed(LoadCall(t).rec)
Diverged(t) == ValidLoaded(t) /\ LoadCall(t).rec.keys # ReadKeys(t)

\* C1: check(CHECK_ONLY) makes no write to the key region, no call of the
\* save callback and no restart request, and leaves the key region as it
\* read it, whatever the backup store holds and whatever load answers.
C1_CheckOnlyChangesNothing ==
    Runs(trace, CHECKMODE_CHECK_ONLY)
    => /\ Made(trace, "dct_write_app_data") = {}
       /\ Made(trace, "save") = {}
       /\ Made(trace, "System.reset") = {}
       /\ ~halted
       /\ live = ReadKeys(trace)

\* C2: every write to the key region, in any run of check() or of the event
\* handler, writes the payload of a record that the same check() loaded
\* successfully and that is valid; and the key region changes in no other way.
C2_OnlyValidBackupRestored ==
    [][/\ \A w \in Made(trace', "dct_write_app_data") :
             /\ RunsCheck(trace')
             /\ w > CheckAt(trace') + 2
             /\ ValidLoaded(trace')
             /\ trace'[w].rec.keys = LoadCall(trace').rec.keys
       /\ live' # live
            => /\ Made(trace', "dct_write_app_data") # {}
               /\ ValidLoaded(trace')
               /\ live' = LoadCall(trace').rec.keys]_vars

\* C2 witness: the event handler's recovery has written the key region.
C2_Witness ==
    /\ Made(trace, "dct_write_app_data") # {}
    /\ Made(trace, "Particle.disconnect") # {}
    /\ live # ReadKeys(trace)

\* C3: when check(AUTOMATIC) loads a valid backup that differs from the key
\* region, it writes exactly the backup's payload to the key region, once,
\* the key region then equals that payload, and it requests a restart after
\* the write and not before.
C3_AutomaticRestoresThenRestarts ==
    Runs(trace, CHECKMODE_AUTOMATIC) /\ Diverged(trace)
    => \E w \in Made(trace, "dct_write_app_data") :
           /\ Made(trace, "dct_write_app_data") = {w}
           /\ trace[w].rec.keys = LoadCall(trace).rec.keys
           /\ live = LoadCall(trace).rec.keys
           /\ w + 1 \in Made(trace, "System.reset")
           /\ \A r \in Made(trace, "System.reset") : r > w

\* C3 witness: check(AUTOMATIC), called by the application, has restored a
\* valid backup over a different key region and its restart took effect.
C3_Witness ==
    /\ Runs(trace, CHECKMODE_AUTOMATIC)
    /\ trace[1].op = "check"
    /\ Diverged(trace)
    /\ halted

\* C4: check(AUTOMATIC_NO_RESTART) requests no restart in any storage state;
\* on a valid backup that differs from the key region it writes the backup's
\* payload to the key region, as AUTOMATIC does, and returns false.
C4_NoRestartRestoresWithoutRestart ==
    Runs(trace, CHECKMODE_AUTOMATIC_NO_RESTART)
    => /\ Made(trace, "System.reset") = {}
       /\ ~halted
       /\ Returns(trace)
       /\ Diverged(trace)
            => /\ \E w \in Made(trace, "dct_write_app_data") :
                      /\ Made(trace, "dct_write_app_data") = {w}
                      /\ trace[w].rec.keys = LoadCall(trace).rec.keys
               /\ live = LoadCall(trace).rec.keys
               /\ live = check(CHECKMODE_AUTOMATIC, ReadKeys(trace),
                               <<LoadCall(trace).rec>>,
                               [loadOk |-> TRUE, res |-> 0, halts |-> FALSE,
                                saveOk |-> TRUE, halts2 |-> FALSE,
                                diagSize |-> 0, diagValue |-> 0]).live
               /\ Returned(trace) = FALSE

\* C4 witness: check(AUTOMATIC_NO_RESTART) has restored a valid backup over
\* a different key region.
C4_Witness ==
    /\ Runs(trace, CHECKMODE_AUTOMATIC_NO_RESTART)
    /\ Diverged(trace)
    /\ live # ReadKeys(trace)

\* C5: when load fails or the loaded record is invalid, check(AUTOMATIC)
\* hands the save callback one record, valid and carrying the key region as
\* its payload, writes nothing to the key region and requests no restart.
C5_AutomaticSavesWhenNoValidBackup ==
    Runs(trace, CHECKMODE_AUTOMATIC) /\ ~ValidLoaded(trace)
    => /\ \E sv \in Within(trace, "save") :
              /\ Within(trace, "save") = {sv}
              /\ WellFormed(trace[sv].rec)
              /\ trace[sv].rec.keys = ReadKeys(trace)
              /\ trace[sv].rec.keys = live
       /\ Made(trace, "dct_write_app_data") = {}
       /\ Within(trace, "System.reset") = {}
       /\ live = ReadKeys(trace)

\* C5 witness: check(AUTOMATIC) has loaded a record that fails validation,
\* on a key region that is not all zeroes.
C5_Witness ==
    /\ Runs(trace, CHECKMODE_AUTOMATIC)
    /\ LoadCall(trace).ok
    /\ ~WellFormed(LoadCall(trace).rec)
    /\ Made(trace, "save") # {}
    /\ \E i \in DOMAIN live : live[i] # 0

\* The run is check(SAVE_CURRENT) called by the application.
SaveRun(t) ==
    /\ t # <<>>
    /\ t[1].op = "check"
    /\ t[1].arg = CHECKMODE_SAVE_CURRENT
Saves(t) == Cardinality(Made(t, "save"))
SavePersists(t) == \A i \in Made(t, "save") : t[i].ok
\* Two check(SAVE_CURRENT) calls in a row, the save callback storing what it
\* is given and the load callback returning what is stored.
TwoSaveCurrent ==
    /\ SaveRun(prev)
    /\ SaveRun(trace)
    /\ SavePersists(prev)
    /\ SavePersists(trace)
    /\ LoadCall(trace).ok

\* C6 as claimed: two check(SAVE_CURRENT) calls in a row make exactly one
\* call of the save callback between them, and the second makes none.
C6_ExactlyOneWrite ==
    TwoSaveCurrent => Saves(prev) + Saves(trace) = 1 /\ Saves(trace) = 0

\* C6 amended: of two check(SAVE_CURRENT) calls in a row the second never
\* calls the save callback, and the first calls it once unless it loaded a
\* valid backup equal to the key region, in which case it does not call it.
C6_AtMostOneWrite ==
    TwoSaveCurrent
    => /\ Saves(trace) = 0
       /\ Saves(prev) = IF ValidLoaded(prev) /\ ~Diverged(prev) THEN 0 ELSE 1

\* C6 witness: two check(SAVE_CURRENT) calls in a row, the first on a valid
\* backup that differs from the key region.
C6_Witness ==
    /\ TwoSaveCurrent
    /\ Diverged(prev)
    /\ Saves(prev) = 1

\* C7: check(mode) returns false exactly when it loaded a record, the record
\* is valid, the mode is not SAVE_CURRENT and the key region differs from the
\* record's payload; otherwise it returns true, whatever save answers.
C7_ReturnValue ==
    RunsCheck(trace) /\ Returns(trace)
    => (Returned(trace) = FALSE
        <=> /\ ValidLoaded(trace)
            /\ trace[CheckAt(trace)].arg # CHECKMODE_SAVE_CURRENT
            /\ LoadCall(trace).rec.keys # ReadKeys(trace))

\* C7 witness: check() has returned true after the save callback reported
\* failure.
C7_Witness ==
    /\ RunsCheck(trace)
    /\ Returns(trace)
    /\ Returned(trace)
    /\ \E i \in Made(trace, "save") : ~trace[i].ok

\* Reading a run of the event handler: its first entry holds the param,
\* and connected and failureCount as the handler found them.
Handles(t, param) ==
    /\ t # <<>>
    /\ t[1].op = "eventHandler"
    /\ t[1].arg = param
\* A Disconnected event handled while not connected.
Qualifying(t) == Handles(t, cloud_status_disconnected) /\ ~t[1].ok
Recovers(t) == Made(t, "Particle.disconnect") # {}
\* Disconnect request, then check(AUTOMATIC), then a restart request.
RecoversInOrder(t) ==
    \E d \in Made(t, "Particle.disconnect") :
        /\ d + 1 \in DOMAIN t
        /\ t[d + 1].op = "check"
        /\ t[d + 1].arg = CHECKMODE_AUTOMATIC
        /\ \E r \in Made(t, "System.reset") : r > d + 1

C9_KeysErrorCodeRecovers ==
    diagSupport
    => /\ Recovers(trace) => Qualifying(trace)
       /\ Qualifying(trace)
            => /\ trace[2].op = "getSystemDiagValue"
               /\ Recovers(trace) <=> trace[2].ok /\ trace[2].n \in {10, 26}
               /\ Recovers(trace) => RecoversInOrder(trace)

\* C9 witness: with diagnostic support, the first Disconnected event since
\* boot has started recovery on error code 10.
C9_Witness ==
    /\ diagSupport
    /\ Qualifying(trace)
    /\ strikes = 1
    /\ trace[2].n = 10
    /\ RecoversInOrder(trace)

\* C10: a Connected event, whatever connected and failureCount were, leaves
\* connected true and failureCount 0 and runs check(SAVE_CURRENT) to its
\* return.
C10_ConnectedResetsAndSaves ==
    Handles(trace, cloud_status_connected)
    => /\ connected
       /\ failureCount = 0
       /\ Len(trace) >= 2
       /\ trace[2].op = "check"
       /\ trace[2].arg = CHECKMODE_SAVE_CURRENT
       /\ Returns(trace)
       /\ ~halted

\* C10 witness: a Connected event has been handled after failed attempts.
C10_Witness ==
    /\ Handles(trace, cloud_status_connected)
    /\ ~trace[1].ok
    /\ trace[1].n >= 2
    /\ failureCount = 0

\* C11: a recovery is one disconnect request, then check(AUTOMATIC), then
\* a restart request, nothing else coming before the disconnect request
\* but the handler's own reading of the event. When check() comes back,
\* whether its own restart request returned or it made none, the handler's
\* restart request follows the return and is the last call; when check()
\* does not come back, the device has halted in check()'s restart request.
\* Either way a recovery holds at least one restart request.
C11_RecoveryEndsInRestart ==
    Recovers(trace)
    => /\ Cardinality(Made(trace, "Particle.disconnect")) = 1
       /\ RecoversInOrder(trace)
       /\ \A d \in Made(trace, "Particle.disconnect") :
             \A i \in 1..(d - 1) :
                 trace[i].op \in {"eventHandler", "getSystemDiagValue"}
       /\ Made(trace, "System.reset") # {}
       /\ trace[Len(trace)].op = "System.reset"
       /\ IF Returns(trace)
          THEN /\ trace[Len(trace) - 1].op = "return"
               /\ halted = trace[Len(trace)].ok
          ELSE /\ halted
               /\ Within(trace, "System.reset") # {}

\* C11 witness: in a recovery check() restored the keys, its restart
\* request returned, and the handler made a second restart request.
C11_Witness ==
    /\ Recovers(trace)
    /\ Returns(trace)
    /\ Within(trace, "dct_write_app_data") # {}
    /\ Cardinality(Made(trace, "System.reset")) = 2

\* A recovery in which check() made no restart request of its own.
C11_WitnessNoRestartInCheck ==
    /\ Recovers(trace)
    /\ Returns(trace)
    /\ Cardinality(Made(trace, "System.reset")) = 1

C13_CounterResetAfterRecovery ==
    (~diagSupport /\ Qualifying(trace) /\ strikes = FailureThreshold + 1)
    => /\ failureCount = 1
       /\ ~Recovers(trace)

\* C14 as claimed: however often startMonitor() was called, once the
\* dispatch of a raised event is over the handler has run for it once: no
\* handler run for the same event came before the last one.
C14_EachEventHandledOnce ==
    (queue = <<>> /\ trace # <<>>) => prev = <<>>

\* Two records alike in magic, size and checksum field whose payloads
\* differ in exactly one byte.
OneByteApart(r, s) ==
    /\ r.magic = s.magic
    /\ r.size = s.size
    /\ r.sum = s.sum
    /\ Cardinality({i \in DOMAIN r.keys : r.keys[i] # s.keys[i]}) = 1

\* C15: a well-formed record is accepted by validateData(), and the record
\* that differs from it in one payload byte only (one flipped bit, or any
\* other value of that byte), header fields untouched, is rejected.
C15_SingleByteChangeRejected ==
    (/\ trace # <<>>
     /\ trace[1].op = "validateData"
     /\ WellFormed(prev[1].rec)
     /\ OneByteApart(prev[1].rec, trace[1].rec))
    => /\ prev[1].ok
       /\ ~trace[1].ok

\* C15 witness: the top bit of the last payload byte of a valid record was
\* flipped from 0 to 1, and validation has run on the result.
C15_Witness ==
    /\ trace # <<>>
    /\ trace[1].op = "validateData"
    /\ WellFormed(prev[1].rec)
    /\ OneByteApart(prev[1].rec, trace[1].rec)
    /\ prev[1].rec.keys[DEVICE_KEYS_HELPER_SIZE] = 0
    /\ trace[1].rec.keys[DEVICE_KEYS_HELPER_SIZE] = 128
    /\ ~trace[1].ok

\* A qualifying Disconnected event for which no diagnostic value was to be
\* had: the build has no query, or the query was made and failed.
NoDiagValue(t) ==
    /\ Qualifying(t)
    /\ \A i \in Made(t, "getSystemDiagValue") : ~t[i].ok

\* C16 as claimed: on every qualifying Disconnected event with no
\* diagnostic value, on a build with the query as on one without,
\* failureCount goes up by one and recovery runs once it has reached 3.
C16_FallbackWheneverNoValue ==
    NoDiagValue(trace)
    => /\ failureCount = trace[1].n + 1
       /\ (TooManyFailures(failureCount) => Recovers(trace))

\* C16: on a build without the diagnostic query every qualifying
\* Disconnected event raises failureCount by one and recovery runs exactly
\* when the count has reached 3; on a build with the query an event whose
\* query fails changes nothing: failureCount stays, and no call follows
\* the query.
C16_FallbackOnlyWithoutQuery ==
    NoDiagValue(trace)
    => IF diagSupport
       THEN /\ failureCount = trace[1].n
            /\ Len(trace) = 2
            /\ ~Recovers(trace)
            /\ ~halted
       ELSE /\ failureCount = trace[1].n + 1
            /\ Made(trace, "getSystemDiagValue") = {}
            /\ (failureCount >= FailureThreshold <=> Recovers(trace))

\* C16 witness: on a build with the query, a third qualifying Disconnected
\* event in a row met a failing query.
C16_Witness ==
    /\ diagSupport
    /\ NoDiagValue(trace)
    /\ Made(trace, "getSystemDiagValue") # {}
    /\ strikes = FailureThreshold

\* C17: the run of a Connecting event makes no call; the step that handles
\* it leaves connected false and failureCount, the key region and the
\* backup as they were, and halts nothing. Without diagnostic support
\* failureCount therefore still equals the number of Disconnected events
\* handled while not connected since the last Connected event or boot,
\* Connecting events between them or not.
C17_ConnectingChangesOnlyConnected ==
    [][Handles(trace', cloud_status_connecting)
       => /\ Len(trace') = 1
          /\ ~connected'
          /\ failureCount' = failureCount
          /\ failureCount' = trace'[1].n
          /\ live' = live
          /\ backup' = backup
          /\ ~halted'
          /\ (~diagSupport => failureCount' = strikes')]_vars

\* C17 witness: without diagnostic support a Connecting event has been
\* handled after two failed attempts, the second of which found the flag
\* cleared, and the count is still 2.
C17_Witness ==
    /\ ~diagSupport
    /\ Handles(trace, cloud_status_connecting)
    /\ strikes = 2
    /\ failureCount = 2
    /\ ~connected

\* C18: a check() in a mode other than SAVE_CURRENT that loaded a valid
\* record makes no call of save, the record equal to the key region or
\* not, whatever dct_write_app_data returned and whether or not the
\* restart request halted; the backup store still holds the loaded record.
C18_ValidBackupKeptOutsideSaveCurrent ==
    (/\ RunsCheck(trace)
     /\ trace[CheckAt(trace)].arg # CHECKMODE_SAVE_CURRENT
     /\ ValidLoaded(trace))
    => /\ Made(trace, "save") = {}
       /\ backup = <<LoadCall(trace).rec>>

\* C18 witness: check(AUTOMATIC) loaded a valid record different from the
\* key region, dct_write_app_data reported an error, the restart request
\* returned, and check() came back.
C18_Witness ==
    /\ Runs(trace, CHECKMODE_AUTOMATIC)
    /\ Diverged(trace)
    /\ \E i \in Within(trace, "dct_write_app_data") : ~trace[i].ok
    /\ Within(trace, "System.reset") # {}
    /\ Returns(trace)
    /\ backup = <<LoadCall(trace).rec>>

\* C19: once a check() in AUTOMATIC, AUTOMATIC_NO_RESTART or SAVE_CURRENT
\* mode has come back, every save it made having persisted and every
\* dct_write_app_data having reported success, the backup store holds a
\* well-formed record whose payload is the key region.
C19_BackupMatchesKeysAfterCheck ==
    (/\ RunsCheck(trace)
     /\ trace[CheckAt(trace)].arg # CHECKMODE_CHECK_ONLY
     /\ Returns(trace)
     /\ SavePersists(trace)
     /\ \A i \in Made(trace, "dct_write_app_data") : trace[i].ok)
    => /\ backup # NoBackup
       /\ WellFormed(backup[1])
       /\ backup[1].keys = live

\* C19 witness: check(AUTOMATIC_NO_RESTART) found a valid backup different
\* from the key region, wrote it back with success and returned; the
\* backup and the key region now agree.
C19_Witness ==
    /\ Runs(trace, CHECKMODE_AUTOMATIC_NO_RESTART)
    /\ Diverged(trace)
    /\ \E i \in Within(trace, "dct_write_app_data") : trace[i].ok
    /\ Returns(trace)
    /\ backup # NoBackup
    /\ backup[1].keys = live

\* A check(AUTOMATIC) that found no valid backup, saved the key region and
\* returned.
C19_WitnessSaved ==
    /\ Runs(trace, CHECKMODE_AUTOMATIC)
    /\ ~ValidLoaded(trace)
    /\ Made(trace, "save") # {}
    /\ SavePersists(trace)
    /\ Returns(trace)
    /\ backup = <<ValidRecord(live)>>

\* C20: a check(SAVE_CURRENT), called directly or by a Connected event,
\* makes no dct_write_app_data and no restart request whatever the backup
\* store holds, leaves the key region as it read it, and returns true.
\* When it loaded a valid record different from the key region it calls
\* save with a well-formed record of the key region, which replaces the
\* backup when the save persists.
C20_SaveCurrentNeverRestores ==
    Runs(trace, CHECKMODE_SAVE_CURRENT)
    => /\ Made(trace, "dct_write_app_data") = {}
       /\ Made(trace, "System.reset") = {}
       /\ ~halted
       /\ live = ReadKeys(trace)
       /\ Returns(trace)
       /\ Returned(trace)
       /\ (Diverged(trace)
           => /\ Saves(trace) = 1
              /\ \A i \in Made(trace, "save") :
                    /\ WellFormed(trace[i].rec)
                    /\ trace[i].rec.keys = live
                    /\ (trace[i].ok => backup = <<trace[i].rec>>)
                    /\ (~trace[i].ok => backup = <<LoadCall(trace).rec>>))

\* C20 witness: a Connected event met a valid backup different from the
\* key region, and the backup now holds the key region.
C20_Witness ==
    /\ Handles(trace, cloud_status_connected)
    /\ Diverged(trace)
    /\ live # LoadCall(trace).rec.keys
    /\ backup = <<ValidRecord(live)>>

====
